---- MODULE Spec2Model ----
(***************************************************************************)
(* The Response class of src/src/Response.mjs as a state machine.          *)
(*                                                                         *)
(* The model follows one instance.  `response` holds the instance's        *)
(* fields, `call` the operation that produced the current state (name,     *)
(* arguments, result and the parts of the previous state the properties    *)
(* compare against).  A method is an operator from an instance record to   *)
(* an instance record; the field `exc` carries the exception the call in   *)
(* progress has thrown ("none" while it runs normally), so that a chain    *)
(* a.b().c() stops at the first throw exactly as the JavaScript does, and  *)
(* the assignments made before the throw stay made.                        *)
(*                                                                         *)
(* `launcher` holds the NodeHttpLauncher of                                *)
(* src/src/launchers/NodeHttpLauncher.mjs: its server, the application's   *)
(* instance registry and, per connection, where its request handler is.    *)
(***************************************************************************)
EXTENDS Integers, Sequences, FiniteSets, TLC

VARIABLES response, call, launcher

vars == <<response, call, launcher>>

(***************************************************************************)
(* Bounds of the model.                                                    *)
(***************************************************************************)
\* Largest number of entries in a header mapping handed to the constructor
\* or to setHeaders.
MaxEntries == 2

\* Number of connections the launcher's server is offered.
NumConnections == 3

(***************************************************************************)
(* JavaScript values: a tag and a payload.  A plain object, a number and a *)
(* boolean carry their JSON text, a buffer its bytes, an array its items.  *)
(***************************************************************************)
undefined == [t |-> "undefined", v |-> ""]
null == [t |-> "null", v |-> ""]
Str(s) == [t |-> "string", v |-> s]
Obj(json) == [t |-> "object", v |-> json]
Num(json) == [t |-> "number", v |-> json]
Bool(json) == [t |-> "boolean", v |-> json]
Buf(bytes) == [t |-> "buffer", v |-> bytes]
Arr(items) == [t |-> "array", v |-> items]

typeof(x) ==
  CASE x.t \in {"null", "object", "buffer", "array"} -> "object"
    [] OTHER -> x.t

isBuffer(x) == x.t = "buffer"
isArray(x) == x.t = "array"
isNullish(x) == x.t \in {"undefined", "null"}
truthy(x) ==
  /\ ~isNullish(x)
  /\ ~(x.t = "string" /\ x.v = "")
  /\ ~(x.t = "number" /\ x.v = "0")
  /\ ~(x.t = "boolean" /\ x.v = "false")

\* String(value)
String(x) ==
  CASE x.t = "string" -> x
    [] x.t \in {"number", "boolean"} -> Str(x.v)
    [] x.t = "undefined" -> Str("undefined")
    [] x.t = "null" -> Str("null")
    [] x.t = "object" -> Str("[object Object]")
    [] OTHER -> Str(x.v)

\* String.prototype.toLowerCase on the strings the model uses.
toLowerCase(s) ==
  CASE s \in {"Content-Type", "CONTENT-TYPE"} -> "content-type"
    [] s \in {"X-Foo", "X-FOO"} -> "x-foo"
    [] s = "Set-Cookie" -> "set-cookie"
    [] s = "Vary" -> "vary"
    [] s = "Content-Length" -> "content-length"
    [] s = "Transfer-Encoding" -> "transfer-encoding"
    [] s = "ETag" -> "etag"
    [] s = "Accept" -> "accept"
    [] s = "UTF-8" -> "utf-8"
    [] s = "Cache-Control" -> "cache-control"
    [] s = "Location" -> "location"
    [] s = "Expires" -> "expires"
    [] s = "Age" -> "age"
    [] s = "Date" -> "date"
    [] s = "Last-Modified" -> "last-modified"
    [] OTHER -> s

RECURSIVE join(_, _)
join(items, sep) ==
  IF Len(items) = 0 THEN ""
  ELSE IF Len(items) = 1 THEN items[1]
  ELSE items[1] \o sep \o join(Tail(items), sep)

(***************************************************************************)
(* Exceptions.                                                             *)
(***************************************************************************)
InvalidArgumentException == "InvalidArgumentException"
LogicException == "LogicException"
TypeError == "TypeError"

Throw(o, e) == [o EXCEPT !.exc = e]
Ok(o) == o.exc = "none"

\* F applied to the value of e: one statement after another
Then(e, F(_)) == CHOOSE y \in {F(x) : x \in {e}} : TRUE

(***************************************************************************)
(* Status codes.                                                           *)
(***************************************************************************)
HTTP_OK == 200
HTTP_NO_CONTENT == 204
HTTP_RESET_CONTENT == 205
HTTP_NOT_MODIFIED == 304
HTTP_NOT_ACCEPTABLE == 406

\* statuses.message restricted to the codes the model draws.
STATUS_TEXTS ==
  (100 :> "Continue") @@ (200 :> "OK") @@ (204 :> "No Content")
    @@ (205 :> "Reset Content") @@ (304 :> "Not Modified")
    @@ (406 :> "Not Acceptable")
    @@ (201 :> "Created") @@ (301 :> "Moved Permanently") @@ (302 :> "Found")
    @@ (303 :> "See Other") @@ (307 :> "Temporary Redirect")
    @@ (308 :> "Permanent Redirect")

\* isInvalid with the upper limit off by one
isInvalid_inclusive600(o) == o._statusCode < 100 \/ o._statusCode > 600

isInvalid(o) == o._statusCode < 100 \/ o._statusCode >= 600
isInformational(o) == o._statusCode >= 100 /\ o._statusCode < 200
isEmpty(o) == o._statusCode \in {HTTP_NO_CONTENT, HTTP_NOT_MODIFIED}
isResetContent(o) == o._statusCode \in {HTTP_RESET_CONTENT}

setStatus(o, code, text) ==
  IF ~Ok(o) THEN o
  ELSE LET o1 == [o EXCEPT !._statusCode = code]
       IN IF isInvalid(o1) THEN Throw(o1, InvalidArgumentException)
          ELSE [o1 EXCEPT !._statusMessage =
                            IF text.t = "null"
                            THEN IF code \in DOMAIN STATUS_TEXTS
                                 THEN Str(STATUS_TEXTS[code])
                                 ELSE Str("unknown status")
                            ELSE text]

(***************************************************************************)
(* The header store: the platform's Headers class, a list of               *)
(* [name, value] with lower-cased names.  The instance's `_headers` field  *)
(* is `undefined` until something assigns it.                              *)
(***************************************************************************)
HeadersOf(entries) == [t |-> "Headers", v |-> entries]

hasStore(o) == o._headers.t = "Headers"

RECURSIVE indexOfName(_, _, _)
indexOfName(entries, name, i) ==
  IF i > Len(entries) THEN 0
  ELSE IF entries[i].name = name THEN i
  ELSE indexOfName(entries, name, i + 1)

\* Headers.prototype.has / get on a store
Headers_has(o, key) == indexOfName(o._headers.v, toLowerCase(key), 1) # 0

Headers_get(o, key) ==
  LET i == indexOfName(o._headers.v, toLowerCase(key), 1)
  IN IF i = 0 THEN null ELSE Str(o._headers.v[i].value)

\* the byte string Headers stores for a value: an array is joined by ","
headerText(value) == IF isArray(value) THEN join(value.v, ",") ELSE String(value).v

\* this._headers.set(key, value)
Headers_set(o, key, value) ==
  IF ~Ok(o) THEN o
  ELSE IF ~hasStore(o) THEN Throw(o, TypeError)
  ELSE LET name == toLowerCase(key)
           i == indexOfName(o._headers.v, name, 1)
           e == [name |-> name, value |-> headerText(value)]
       IN [o EXCEPT !._headers =
             HeadersOf(IF i = 0 THEN Append(o._headers.v, e)
                       ELSE [o._headers.v EXCEPT ![i] = e])]

\* this._headers.append(key, value)
Headers_append(o, key, value) ==
  IF ~Ok(o) THEN o
  ELSE IF ~hasStore(o) THEN Throw(o, TypeError)
  ELSE LET name == toLowerCase(key)
           i == indexOfName(o._headers.v, name, 1)
       IN [o EXCEPT !._headers =
             HeadersOf(IF i = 0
                       THEN Append(o._headers.v,
                                   [name |-> name, value |-> headerText(value)])
                       ELSE [o._headers.v EXCEPT ![i].value =
                               @ \o ", " \o headerText(value)])]

\* this._headers.delete(key)
Headers_delete(o, key) ==
  IF ~Ok(o) THEN o
  ELSE IF ~hasStore(o) THEN Throw(o, TypeError)
  ELSE [o EXCEPT !._headers =
          HeadersOf(SelectSeq(o._headers.v,
                              LAMBDA e : e.name # toLowerCase(key)))]

(***************************************************************************)
(* Content-Type strings: the media types and charset fragments the model   *)
(* draws, with the three string functions setHeader applies to them.       *)
(***************************************************************************)
MediaTypes ==
  {"text/plain", "text/html", "application/json", "application/octet-stream"}

\* /;\s*charset\s*=/.test(s)
charsetRegExp(s) ==
  s \in {m \o "; charset=" \o c :
           m \in MediaTypes \cup {"text/html; level=1"},
           c \in {"utf-8", "UTF-8", "iso-8859-1"}}

\* value.split(';').shift().trim()
mediaTypeOf(s) ==
  CASE s = "text/html; level=1" -> "text/html"
    [] OTHER -> s

\* mime.charsets.lookup(type): /^text\/|^application\/(javascript|json)/
charsets_lookup(type) ==
  IF type \in {"text/plain", "text/html", "application/json",
               "application/javascript"}
  THEN Str("UTF-8")
  ELSE undefined

\* mime.lookup(extension)
mime_lookup(ext) ==
  CASE ext = "html" -> "text/html"
    [] ext = "json" -> "application/json"
    [] ext = "bin" -> "application/octet-stream"
    [] OTHER -> "application/octet-stream"

\* value.includes('/')
includesSlash(s) == s \notin {"html", "json", "bin"}

\* lines 203-212: the value setHeader stores and the charset it records
coerced(value) == IF isArray(value) THEN value ELSE String(value)

infersCharset(key, val) ==
  toLowerCase(key) = "content-type" /\ ~isArray(val) /\ ~charsetRegExp(val.v)

withCharset(val, cs) ==
  IF truthy(cs)
  THEN Str(val.v \o "; charset=" \o toLowerCase(cs.v))
  ELSE val

setHeader(o, key, value) ==
  IF ~Ok(o) THEN o
  ELSE Then(coerced(value), LAMBDA val :
         IF toLowerCase(key) = "content-type" /\ isArray(val)
         THEN Throw(o, InvalidArgumentException)
         ELSE IF infersCharset(key, val)
         THEN Then(charsets_lookup(mediaTypeOf(val.v)), LAMBDA cs :
                Then([o EXCEPT !._charset = cs], LAMBDA o1 :
                  Headers_set(o1, key, withCharset(val, cs))))
         ELSE Headers_set(o, key, val))

RECURSIVE reduceSetHeader(_, _, _)
reduceSetHeader(o, entries, i) ==
  IF i > Len(entries) \/ ~Ok(o) THEN o
  ELSE Then(setHeader(o, entries[i][1], entries[i][2]), LAMBDA o1 :
         reduceSetHeader(o1, entries, i + 1))

\* The second definition of the name (lines 197-200) is the one the class
\* keeps; the first (lines 184-187), which would assign `_headers`, is
\* replaced by it and never runs.  `values` is the list Object.entries gives.
\* reduce is called without an initial value: an empty list throws, the
\* first entry is the accumulator and is never passed to setHeader, and a
\* one-entry list returns that entry instead of the instance.
setHeaders(o, values) ==
  IF ~Ok(o) THEN o
  ELSE IF Len(values) = 0 THEN Throw(o, TypeError)
  ELSE IF Len(values) = 1 THEN [o EXCEPT !.ret = "entry"]
  ELSE reduceSetHeader(o, values, 2)

\* a method called on the value the previous call of a chain returned
onThis(o) == IF Ok(o) /\ o.ret # "this" THEN Throw(o, TypeError) ELSE o

appendHeader(o, key, value) == Headers_append(o, key, value)

RECURSIVE removeEach(_, _, _)
removeEach(o, keys, i) ==
  IF i > Len(keys) \/ ~Ok(o) THEN o
  ELSE Then(Headers_delete(o, keys[i]), LAMBDA o1 : removeEach(o1, keys, i + 1))

\* key is one name or an array of names; `keys` is the array
removeHeader(o, keys) == removeEach(o, keys, 1)

(***************************************************************************)
(* Content.                                                                *)
(***************************************************************************)
_shouldBeJson(content) ==
  ~isBuffer(content) /\ typeof(content) \in {"object", "number", "boolean"}

\* JSON.stringify(value) with the application's default options (no
\* replacer, no indentation, no escaping).
stringify(value) ==
  CASE value.t = "null" -> Str("null")
    [] value.t = "array" -> Str("[" \o join(value.v, ",") \o "]")
    [] OTHER -> Str(value.v)

\* _morphToJson: this.app throws LogicException without a resolver, and the
\* catch turns every throw into InvalidArgumentException.
setContent(o, value) ==
  IF ~Ok(o) THEN o
  ELSE IF _shouldBeJson(value)
  THEN IF o.appResolver.t = "undefined"
       THEN Throw(o, InvalidArgumentException)
       ELSE [o EXCEPT !._content = stringify(value), !.originalContent = value]
  ELSE [o EXCEPT !._content = IF isNullish(value) THEN Str("") ELSE value,
                 !.originalContent = value]

setProtocolVersion(o, value) ==
  IF ~Ok(o) THEN o ELSE [o EXCEPT !._version = value]

setAppResolver(o, resolver) ==
  IF ~Ok(o) THEN o ELSE [o EXCEPT !.appResolver = resolver]

setRequestResolver(o, resolver) ==
  IF ~Ok(o) THEN o ELSE [o EXCEPT !.requestResolver = resolver]

(***************************************************************************)
(* Reading headers.  getHeader returns a value; it throws when `_headers`  *)
(* is not a store.                                                         *)
(***************************************************************************)
getHeader(o, key, fallback) ==
  LET got == Headers_get(o, key)
  IN IF isNullish(got) THEN fallback ELSE got

hasHeader(o, key) == Headers_has(o, key)

setContentType(o, value) ==
  setHeader(o, "Content-Type",
            Str(IF includesSlash(value) THEN value ELSE mime_lookup(value)))

(***************************************************************************)
(* The cookie jar (CookieCollection): a list of cookies, one per name.     *)
(***************************************************************************)
hasJar(o) == o.cookieCollection.t = "CookieCollection"

Jar(cookies) == [t |-> "CookieCollection", v |-> cookies]

RECURSIVE indexOfCookie(_, _, _)
indexOfCookie(cookies, name, i) ==
  IF i > Len(cookies) THEN 0
  ELSE IF cookies[i].name = name THEN i
  ELSE indexOfCookie(cookies, name, i + 1)

\* add(name, value, options): a cookie of the same name is replaced
Cookies_add(cookies, name, value) ==
  LET i == indexOfCookie(cookies, name, 1)
      c == [name |-> name, value |-> value, secure |-> FALSE,
            expired |-> FALSE]
  IN IF i = 0 THEN Append(cookies, c) ELSE [cookies EXCEPT ![i] = c]

\* remove(name, force): forget the cookie; forced, leave one that expires
\* it at the client
Cookies_remove(cookies, name, force) ==
  LET rest == SelectSeq(cookies, LAMBDA c : c.name # name)
  IN IF force
     THEN Append(rest, [name |-> name, value |-> "", secure |-> FALSE,
                        expired |-> TRUE])
     ELSE rest

\* clear(force)
Cookies_clear(cookies, force) ==
  IF force
  THEN [i \in 1..Len(cookies) |-> [cookies[i] EXCEPT !.value = "",
                                                     !.expired = TRUE]]
  ELSE <<>>

\* secure(value)
Cookies_secure(cookies, value) ==
  [i \in 1..Len(cookies) |-> [cookies[i] EXCEPT !.secure = value]]

serializeCookie(c) ==
  c.name \o "=" \o c.value
    \o (IF c.secure THEN "; Secure" ELSE "")
    \o (IF c.expired THEN "; Expires=Thu, 01 Jan 1970 00:00:00 GMT" ELSE "")

\* all(true): the Set-Cookie lines
Cookies_all(cookies) ==
  Arr([i \in 1..Len(cookies) |-> serializeCookie(cookies[i])])

withJar(o, cookies) ==
  IF ~Ok(o) THEN o ELSE [o EXCEPT !.cookieCollection = Jar(cookies)]

\* this.setHeader('Set-Cookie', this.#cookieCollection.all(true))
serializeJar(o) ==
  IF ~Ok(o) THEN o
  ELSE setHeader(o, "Set-Cookie", Cookies_all(o.cookieCollection.v))

setCookie(o, name, value) ==
  IF ~Ok(o) THEN o
  ELSE IF ~hasJar(o) THEN Throw(o, TypeError)
  ELSE Then(withJar(o, Cookies_add(o.cookieCollection.v, name, value)),
            LAMBDA o1 : serializeJar(o1))

clearCookie(o, name, force) ==
  IF ~Ok(o) THEN o
  ELSE IF ~hasJar(o) THEN Throw(o, TypeError)
  ELSE Then(withJar(o, Cookies_remove(o.cookieCollection.v, name, FALSE)),
            LAMBDA o1 :
         Then(serializeJar(o1), LAMBDA o2 :
           IF Ok(o2) /\ force
           THEN withJar(o2, Cookies_remove(o2.cookieCollection.v, name, TRUE))
           ELSE o2))

clearCookies(o, force) ==
  IF ~Ok(o) THEN o
  ELSE IF ~hasJar(o) THEN Throw(o, TypeError)
  ELSE Then(withJar(o, Cookies_clear(o.cookieCollection.v, FALSE)), LAMBDA o1 :
         Then(serializeJar(o1), LAMBDA o2 :
           IF Ok(o2) /\ force
           THEN withJar(o2, Cookies_clear(o2.cookieCollection.v, TRUE))
           ELSE o2))

secureCookies(o, value) ==
  IF ~Ok(o) THEN o
  ELSE IF ~hasJar(o) THEN Throw(o, TypeError)
  ELSE Then(withJar(o, Cookies_secure(o.cookieCollection.v, value)),
            LAMBDA o1 : serializeJar(o1))

(***************************************************************************)
(* The owning Request: what the Response asks of it.                       *)
(***************************************************************************)
Request(accept, fresh, method, secure, protocol) ==
  [t |-> "Request", accept |-> accept, fresh |-> fresh, method |-> method,
   secure |-> secure, protocol |-> protocol]

\* request.accepts(keys): the first offered key the request accepts, or false
RECURSIVE Request_accepts(_, _, _)
Request_accepts(request, keys, i) ==
  IF i > Len(keys) THEN Bool("false")
  ELSE IF keys[i] \in request.accept THEN Str(keys[i])
  ELSE Request_accepts(request, keys, i + 1)

Request_isFresh(request, o) == request.fresh
Request_isMethod(request, name) == request.method = name
Request_isSecure(request) == request.secure
Request_serverProtocol(request) == request.protocol

(***************************************************************************)
(* Vary.                                                                   *)
(***************************************************************************)
\* the field names in a Vary header value
parseVary(s) ==
  CASE s = "" -> <<>>
    [] s = "Accept" -> <<"Accept">>
    [] s = "X-Foo" -> <<"X-Foo">>
    [] s = "X-Foo, Accept" -> <<"X-Foo", "Accept">>
    [] s = "*" -> <<"*">>
    [] OTHER -> <<s>>

inVary(fields, field) ==
  \E i \in 1..Len(fields) : toLowerCase(fields[i]) = toLowerCase(field)

\* append(header, field) of the vary package
vary_append(header, field) ==
  IF field = "*" THEN "*"
  ELSE IF inVary(parseVary(header), "*") THEN "*"
  ELSE IF inVary(parseVary(header), field) THEN header
  ELSE IF header = "" THEN field
  ELSE header \o ", " \o field

\* vary(this, field): read Vary through getHeader, write it through setHeader
addVary(o, field) ==
  IF ~Ok(o) THEN o
  ELSE IF ~hasStore(o) THEN Throw(o, TypeError)
  ELSE Then(getHeader(o, "Vary", null), LAMBDA got :
         Then(vary_append(IF truthy(got) THEN got.v ELSE "", field), LAMBDA val :
           IF val = "" THEN o ELSE setHeader(o, "Vary", Str(val))))

(***************************************************************************)
(* format(formats).  `formats` is [keys, produce, default]: the offered    *)
(* non-default keys in order, what each producer returns, and what the     *)
(* default producer returns (undefined: no default).                       *)
(***************************************************************************)
\* lines 345-355, with the key the negotiation gave
formatBody(o, formats, key) ==
  IF truthy(key)
  THEN Then(setContentType(o, key.v), LAMBDA o1 :
         setContent(o1, formats.produce[key.v]))
  ELSE IF formats.default.t # "undefined"
  THEN setContent(o, formats.default)
  ELSE Then(setStatus(o, HTTP_NOT_ACCEPTABLE, null), LAMBDA o1 :
         setContent(o1, Str("Invalid types (" \o join(formats.keys, ",") \o ")")))

format(o, formats) ==
  IF ~Ok(o) THEN o
  ELSE IF Len(formats.keys) > 0 /\ o.requestResolver.t = "undefined"
  THEN Throw(o, LogicException)
  ELSE Then(IF Len(formats.keys) > 0
            THEN Request_accepts(o.requestResolver, formats.keys, 1)
            ELSE null, LAMBDA key :
         Then(formatBody(o, formats, key), LAMBDA o1 : addVary(o1, "Accept")))

(***************************************************************************)
(* prepare(request).                                                       *)
(***************************************************************************)
\* this._content.length threshold of line 472
ETAG_BUFFER_THRESHOLD == 1000

\* #defaultEtagFn(content, encoding): a digest of the content, never empty
defaultEtagFn(content) == Str("sha256:" \o content.v)

\* lines 430-443: the Content-Type an absent header gets from typeof content
inferContentType(o) ==
  IF ~Ok(o) \/ typeof(o._content) \notin {"string", "object", "number", "boolean"}
  THEN o
  ELSE IF ~hasStore(o) THEN Throw(o, TypeError)
  ELSE IF truthy(getHeader(o, "Content-Type", null)) THEN o
  ELSE setContentType(o, IF typeof(o._content) = "string" THEN "html"
                         ELSE IF isBuffer(o._content) THEN "bin"
                         ELSE "json")

\* lines 445-447: the status code is assigned directly, not through setStatus
applyFreshness(o) ==
  IF Ok(o) /\ Request_isFresh(o.requestResolver, o)
  THEN [o EXCEPT !._statusCode = HTTP_NOT_MODIFIED]
  ELSE o

\* line 463
defaultCharset(o) ==
  IF Ok(o) /\ isNullish(o._charset)
  THEN [o EXCEPT !._charset = Str("UTF-8")]
  ELSE o

\* lines 465-467, with the Content-Type read at line 460
completeContentType(o, type) ==
  IF Ok(o) /\ type.t = "string" /\ ~charsetRegExp(type.v)
  THEN setContentType(o, type.v \o "; charset=" \o o._charset.v)
  ELSE o

\* lines 470-478: the content the length is measured on
measured(o, generateETag) ==
  IF isBuffer(o._content) THEN o
  ELSE IF ~generateETag /\ Len(o._content.v) < ETAG_BUFFER_THRESHOLD THEN o
  ELSE [o EXCEPT !._content = Buf(o._content.v), !._charset = undefined]

\* lines 469-487
lengthAndETag(o, generateETag) ==
  IF ~Ok(o) \/ o._content.t = "undefined" THEN o
  ELSE Then(measured(o, generateETag), LAMBDA o1 :
         Then(setHeader(o1, "Content-Length", Num(ToString(Len(o1._content.v)))),
              LAMBDA o2 :
           IF Ok(o2) /\ generateETag
           THEN setHeader(o2, "ETag", defaultEtagFn(o2._content))
           ELSE o2))

\* lines 489-495
framingAndHead(o) ==
  IF ~Ok(o) THEN o
  ELSE Then(IF hasHeader(o, "Transfer-Encoding")
            THEN removeHeader(o, <<"Content-Length">>)
            ELSE o, LAMBDA o1 :
         IF Ok(o1) /\ Request_isMethod(o1.requestResolver, "HEAD")
         THEN setContent(o1, null)
         ELSE o1)

\* lines 459-495: the branch of the statuses that carry a body.  The
\* Content-Type is read first, then the application (for the ETag function).
prepareBody(o) ==
  IF ~Ok(o) THEN o
  ELSE IF ~hasStore(o) THEN Throw(o, TypeError)
  ELSE IF o.appResolver.t = "undefined" THEN Throw(o, LogicException)
  ELSE Then(getHeader(o, "Content-Type", null), LAMBDA type :
       Then(~hasHeader(o, "ETag"), LAMBDA generateETag :
       Then(defaultCharset(o), LAMBDA o1 :
       Then(completeContentType(o1, type), LAMBDA o2 :
       Then(lengthAndETag(o2, generateETag), LAMBDA o3 :
         framingAndHead(o3))))))

\* lines 449-496
prepareByStatus(o) ==
  IF ~Ok(o) THEN o
  ELSE IF isInformational(o) \/ isEmpty(o)
  THEN Then(setContent(o, null), LAMBDA o1 :
         removeHeader(o1, <<"Content-Type", "Content-Length", "Transfer-Encoding">>))
  ELSE IF isResetContent(o)
  THEN Then(setContent(o, null), LAMBDA o1 :
         Then(setHeader(o1, "Content-Length", Str("0")), LAMBDA o2 :
           removeHeader(o2, <<"Transfer-Encoding">>)))
  ELSE prepareBody(o)

\* lines 498-504
protocolAndCookies(o) ==
  IF ~Ok(o) THEN o
  ELSE Then(IF Request_serverProtocol(o.requestResolver) # "HTTP/1.0"
            THEN setProtocolVersion(o, Str("1.1"))
            ELSE o, LAMBDA o1 :
         IF Request_isSecure(o1.requestResolver)
         THEN secureCookies(o1, TRUE)
         ELSE o1)

prepare(o, request) ==
  Then(setRequestResolver(o, request), LAMBDA o1 :
  Then(inferContentType(o1), LAMBDA o2 :
  Then(applyFreshness(o2), LAMBDA o3 :
  Then(prepareByStatus(o3), LAMBDA o4 :
    protocolAndCookies(o4)))))

(***************************************************************************)
(* Cache-Control directives: #headerCacheControl, a Map from directive     *)
(* name to value in insertion order, `undefined` until                     *)
(* addHeaderCacheControlDirective creates it.                              *)
(***************************************************************************)
MapOf(entries) == [t |-> "Map", v |-> entries]

hasDirectives(o) == o.headerCacheControl.t = "Map"

RECURSIVE indexOfKey(_, _, _)
indexOfKey(entries, key, i) ==
  IF i > Len(entries) THEN 0
  ELSE IF entries[i].key = key THEN i
  ELSE indexOfKey(entries, key, i + 1)

Map_has(entries, key) == indexOfKey(entries, key, 1) # 0

Map_get(entries, key) ==
  LET i == indexOfKey(entries, key, 1)
  IN IF i = 0 THEN undefined ELSE entries[i].value

\* Map.prototype.set: a key already present keeps its place
Map_set(entries, key, value) ==
  LET i == indexOfKey(entries, key, 1)
      e == [key |-> key, value |-> value]
  IN IF i = 0 THEN Append(entries, e) ELSE [entries EXCEPT ![i] = e]

Map_delete(entries, key) == SelectSeq(entries, LAMBDA e : e.key # key)

\* lines 643-654: the reduce over the entries, from ''
RECURSIVE reduceDirectives(_, _, _)
reduceDirectives(prev, entries, i) ==
  IF i > Len(entries) THEN prev
  ELSE reduceDirectives(
         IF entries[i].value = Bool("true") THEN prev \o ", "
         ELSE prev \o ", " \o entries[i].key \o "=" \o String(entries[i].value).v,
         entries, i + 1)

getHeaderCacheControlHeader(o) ==
  Str(reduceDirectives("", o.headerCacheControl.v, 1))

addHeaderCacheControlDirective(o, key, value) ==
  IF ~Ok(o) THEN o
  ELSE Then([o EXCEPT !.headerCacheControl =
               MapOf(Map_set(IF hasDirectives(o) THEN o.headerCacheControl.v
                             ELSE <<>>, key, value))], LAMBDA o1 :
         setHeader(o1, "Cache-Control", getHeaderCacheControlHeader(o1)))

removeCacheControlDirective(o, key) ==
  IF ~Ok(o) THEN o
  ELSE IF ~hasDirectives(o) THEN Throw(o, TypeError)
  ELSE Then([o EXCEPT !.headerCacheControl =
               MapOf(Map_delete(o.headerCacheControl.v, key))], LAMBDA o1 :
         setHeader(o1, "Cache-Control", getHeaderCacheControlHeader(o1)))

\* The name setPrivate, setPublic and setImmutable call (lines 596, 602, 610).
\* The class defines removeCacheControlDirective only, so the call is a call
\* of undefined.
removeHeaderCacheControlDirective(o, key) ==
  IF ~Ok(o) THEN o ELSE Throw(o, TypeError)

setPrivate(o) ==
  Then(removeHeaderCacheControlDirective(o, "public"), LAMBDA o1 :
    addHeaderCacheControlDirective(o1, "private", Bool("true")))

setPublic(o) ==
  Then(removeHeaderCacheControlDirective(o, "private"), LAMBDA o1 :
    addHeaderCacheControlDirective(o1, "public", Bool("true")))

setImmutable(o, immutable) ==
  IF immutable
  THEN addHeaderCacheControlDirective(o, "immutable", Bool("true"))
  ELSE removeHeaderCacheControlDirective(o, "immutable")

setMaxAge(o, value) == addHeaderCacheControlDirective(o, "max-age", value)

setStaleIfError(o, value) ==
  addHeaderCacheControlDirective(o, "stale-if-error", value)

setStaleWhileRevalidate(o, value) ==
  addHeaderCacheControlDirective(o, "stale-while-revalidate", value)

setSharedMaxAge(o, value) ==
  Then(setPublic(o), LAMBDA o1 :
    addHeaderCacheControlDirective(o1, "s-maxage", value))

(***************************************************************************)
(* setCache(options).  `options` is a function from the keys the object    *)
(* has to their values.                                                    *)
(***************************************************************************)
\* #HTTP_RESPONSE_CACHE_CONTROL_DIRECTIVES (lines 84-99): option key to the
\* flag the table holds for it, in the table's order
CACHE_CONTROL_DIRECTIVES ==
  << <<"must_revalidate", FALSE>>, <<"no_cache", FALSE>>, <<"no_store", FALSE>>,
     <<"no_transform", FALSE>>, <<"public", FALSE>>, <<"private", FALSE>>,
     <<"proxy_revalidate", FALSE>>, <<"max_age", TRUE>>, <<"s_maxage", TRUE>>,
     <<"stale_if_error", TRUE>>, <<"stale_while_revalidate", TRUE>>,
     <<"immutable", FALSE>>, <<"last_modified", TRUE>>, <<"etag", TRUE>> >>

CacheOptionKeys ==
  {CACHE_CONTROL_DIRECTIVES[i][1] : i \in DOMAIN CACHE_CONTROL_DIRECTIVES}

\* options[key]
optionOf(options, key) ==
  IF key \in DOMAIN options THEN options[key] ELSE undefined

\* lines 562-573, for an etag without quotes
setEtag(o, etag, weak) ==
  IF ~truthy(etag) THEN removeHeader(o, <<"ETag">>)
  ELSE setHeader(o, "ETag",
                 Str((IF weak THEN "W/" ELSE "") \o "\"" \o etag.v \o "\""))

\* lines 717-725; date.toUTCString() of a Date is its text
setLastModified(o, date) ==
  IF ~truthy(date) THEN removeHeader(o, <<"Last-Modified">>)
  ELSE setHeader(o, "Last-Modified", Str(date.v))

\* lines 783-793: for a key whose table flag is false and whose option is
\* truthy, `value.replace` is called on that flag, a boolean
RECURSIVE forEachDirective(_, _, _)
forEachDirective(o, options, i) ==
  IF ~Ok(o) \/ i > Len(CACHE_CONTROL_DIRECTIVES) THEN o
  ELSE forEachDirective(
         IF ~CACHE_CONTROL_DIRECTIVES[i][2]
              /\ truthy(optionOf(options, CACHE_CONTROL_DIRECTIVES[i][1]))
         THEN Throw(o, TypeError)
         ELSE o,
         options, i + 1)

\* one `if (options.key) this.method(options.key)` of lines 759-781
applyOption(o, options, key, M(_, _)) ==
  IF Ok(o) /\ truthy(optionOf(options, key))
  THEN M(o, optionOf(options, key))
  ELSE o

\* lines 747-804
setCache(o, options) ==
  IF ~Ok(o) THEN o
  ELSE IF \E k \in CacheOptionKeys : k \notin DOMAIN options
  THEN Throw(o, InvalidArgumentException)
  ELSE
    Then(applyOption(o, options, "etag",
                     LAMBDA x, v : setEtag(x, v, FALSE)), LAMBDA o1 :
    Then(applyOption(o1, options, "last_modified", setLastModified), LAMBDA o2 :
    Then(applyOption(o2, options, "max_age", setMaxAge), LAMBDA o3 :
    Then(applyOption(o3, options, "s_maxage", setSharedMaxAge), LAMBDA o4 :
    Then(applyOption(o4, options, "stale_while_revalidate",
                     setStaleWhileRevalidate), LAMBDA o5 :
    Then(applyOption(o5, options, "stale_if_error", setStaleIfError),
         LAMBDA o6 :
    Then(forEachDirective(o6, options, 1), LAMBDA o7 :
    Then(applyOption(o7, options, "public", LAMBDA x, v : setPublic(x)),
         LAMBDA o8 :
      applyOption(o8, options, "private", LAMBDA x, v : setPrivate(x))))))))))

(***************************************************************************)
(* Cache arithmetic.  A method that returns a value gives [exc, v]: the    *)
(* exception it threw ("none" when it returned) and the value returned.    *)
(***************************************************************************)
Return(v) == [exc |-> "none", v |-> v]
Raise(e) == [exc |-> e, v |-> undefined]

NaN == Num("NaN")

\* the integer a decimal text denotes, for the texts the model draws
NumberOf(text) ==
  CASE text = "0" -> 0
    [] text = "5" -> 5
    [] text = "10" -> 10
    [] text = "30" -> 30
    [] text = "60" -> 60
    [] OTHER -> 0

isNumeric(x) ==
  x.t \in {"number", "string"} /\ x.v \in {"0", "5", "10", "30", "60"}

parseInt(x) == IF isNumeric(x) THEN Num(x.v) ELSE NaN

\* Math.max(a - b, 0)
Math_max_minus(a, b) ==
  IF a = NaN \/ b = NaN THEN NaN
  ELSE IF NumberOf(a.v) - NumberOf(b.v) > 0
  THEN Num(ToString(NumberOf(a.v) - NumberOf(b.v)))
  ELSE Num("0")

\* a > 0
greaterThanZero(x) == x.t = "number" /\ x # NaN /\ NumberOf(x.v) > 0

\* lines 670-684.  getExpires() and getDate() give header strings, which
\* have no getTime.
getMaxAge(o) ==
  IF ~hasDirectives(o) THEN Raise(TypeError)
  ELSE IF Map_has(o.headerCacheControl.v, "s-maxage")
  THEN Return(parseInt(Map_get(o.headerCacheControl.v, "s-maxage")))
  ELSE IF Map_has(o.headerCacheControl.v, "max-age")
  THEN Return(parseInt(Map_get(o.headerCacheControl.v, "max-age")))
  ELSE IF ~hasStore(o) THEN Raise(TypeError)
  ELSE IF truthy(Headers_get(o, "Expires")) THEN Raise(TypeError)
  ELSE Return(null)

\* lines 542-548.  The explicit Age is parsed when the header is absent;
\* when it is present the age is taken from getDate().getTime(), and
\* getDate() gives a header string or null.
getAge(o) ==
  IF ~hasStore(o) THEN Raise(TypeError)
  ELSE IF ~Headers_has(o, "Age") THEN Return(parseInt(Headers_get(o, "Age")))
  ELSE Raise(TypeError)

\* lines 707-710
getTtl(o) ==
  Then(getMaxAge(o), LAMBDA maxAge :
    IF maxAge.exc # "none" THEN maxAge
    ELSE IF maxAge.v = null THEN Return(null)
    ELSE Then(getAge(o), LAMBDA age :
           IF age.exc # "none" THEN age
           ELSE Return(Math_max_minus(maxAge.v, age.v))))

\* lines 587-589
isFresh(o) ==
  Then(getTtl(o), LAMBDA ttl :
    IF ttl.exc # "none" THEN ttl
    ELSE Return(IF greaterThanZero(ttl.v) THEN Bool("true") ELSE Bool("false")))

(***************************************************************************)
(* NodeHttpLauncher.  The request handler of lines 33-40 is an async       *)
(* function: it runs from one await to the next without interruption, and  *)
(* an exception it throws rejects the promise it returned, which nothing   *)
(* handles.                                                                *)
(***************************************************************************)
Connections == 1..NumConnections

NoReply == [written |-> FALSE, from |-> 0, prepared |-> FALSE]

\* one connection: where its handler is, the Request built for it (0: none)
\* and what was written to its native response
Connection(pc, request, reply) ==
  [pc |-> pc, request |-> request, reply |-> reply]

\* the launcher after `new NodeHttpLauncher(app)`: no server yet, nothing
\* registered in the application
NodeHttpLauncher ==
  [server |-> "none", exc |-> "none",
   registry |-> [Request |-> 0, originalRequest |-> 0],
   conn |-> [c \in Connections |-> Connection("idle", 0, NoReply)]]

\* this.kernel (line 37): the class has the field #app and the getter
\* #server only, so the property is undefined
kernel == undefined

\* the #server getter (lines 12-28): new URL(app.url) throws on a bad URL
server_getter_throws(url) == url = "not a url"

\* this.#app.registerInstance(key, instance): one binding per key
registerInstance(l, key, instance) ==
  [l EXCEPT !.registry = [@ EXCEPT ![key] = instance]]

\* the handler's promise rejects
rejectHandler(l, c, e) ==
  [l EXCEPT !.conn[c].pc = "rejected", !.exc = e]

\* lines 35-37, run when the await of line 34 gives `request`; line 37 calls
\* run on this.kernel, so lines 38-39 (writeHead, end) are never reached
handleRequest(l, c, request) ==
  Then([l EXCEPT !.conn[c].request = request], LAMBDA l1 :
  Then(registerInstance(l1, "Request", request), LAMBDA l2 :
  Then(registerInstance(l2, "originalRequest", request), LAMBDA l3 :
    IF kernel.t = "undefined" THEN rejectHandler(l3, c, TypeError)
    ELSE [l3 EXCEPT !.conn[c].pc = "awaitKernel"])))

(***************************************************************************)
(* Construction.                                                           *)
(***************************************************************************)
\* The instance after its class fields are initialised (lines 103-114).
Allocated ==
  [ _headers |-> undefined, _content |-> undefined, _version |-> undefined,
    _charset |-> undefined, _statusCode |-> undefined,
    _statusMessage |-> undefined,
    appResolver |-> undefined, requestResolver |-> undefined,
    originalContent |-> undefined, cookieCollection |-> undefined,
    headerCacheControl |-> undefined,
    exc |-> "none", ret |-> "this", constructed |-> FALSE ]

\* CookieCollection.instance()
CookieCollection_instance == [t |-> "CookieCollection", v |-> <<>>]

constructor(content, status, headers) ==
  Then(setStatus(Allocated, status, null), LAMBDA o1 :
  Then(setHeaders(o1, headers), LAMBDA o2 :
  Then(onThis(o2), LAMBDA o3 :
  Then(setContent(o3, content), LAMBDA o4 :
  Then(setProtocolVersion(o4, Str("1.0")), LAMBDA o5 :
    IF Ok(o5)
    THEN [o5 EXCEPT !.cookieCollection = CookieCollection_instance,
                    !.constructed = TRUE]
    ELSE o5)))))

(***************************************************************************)
(* Inputs.                                                                 *)
(***************************************************************************)
StatusCodes == {99, 100, 200, 204, 205, 304, 599, 600}
Texts == {null, Str("Custom")}
Contents ==
  {undefined, null, Str(""), Str("hi"), Obj("{\"a\":1}"), Num("7"),
   Bool("true"), Buf("hi")}
HeaderKeys == {"X-Foo", "x-foo", "Content-Type"}
\* the (name, value) pairs setHeader and appendHeader are called with
HeaderCalls ==
  {<<"X-Foo", Str("1")>>, <<"x-foo", Str("2")>>, <<"X-Foo", Arr(<<"a", "b">>)>>,
   <<"Content-Type", Str("text/plain")>>,
   <<"Content-Type", Str("text/plain; charset=iso-8859-1")>>,
   <<"Content-Type", Arr(<<"text/plain", "text/html">>)>>}
HeaderEntry ==
  {<<"X-Foo", Str("1")>>, <<"Content-Type", Str("text/plain")>>,
   <<"Vary", Str("X-Foo")>>}
\* the entry lists of the objects over HeaderEntry: no name twice
HeaderMappings ==
  UNION {{m \in [1..n -> HeaderEntry] :
            \A i, j \in 1..n : m[i][1] = m[j][1] => i = j} :
         n \in 0..MaxEntries}
CookieNames == {"sid", "lang"}
Requests ==
  {Request({"application/json"}, FALSE, "GET", FALSE, "HTTP/1.1"),
   Request({}, TRUE, "GET", TRUE, "HTTP/1.0"),
   Request({"application/json"}, FALSE, "HEAD", FALSE, "HTTP/1.1")}
Formats ==
  {[keys |-> keys,
    produce |-> [k \in MediaTypes |->
                   IF k = "application/json" THEN Obj("{\"x\":1}")
                   ELSE Str("<p>hi</p>")],
    default |-> d] :
     keys \in {<<"application/json">>, <<"text/html", "application/json">>},
     d \in {undefined, Str("fallback")}}

\* a call starts with no exception pending
Begin(o) == [o EXCEPT !.exc = "none", !.ret = "this"]

Called(op, args, result) ==
  /\ call' = [op |-> op, args |-> args, result |-> result]
  /\ UNCHANGED launcher

(***************************************************************************)
(* Init: the instance as `new Response(content, status, headers)` leaves   *)
(* it; DefaultArguments are the defaults of line 116.                      *)
(***************************************************************************)
DefaultArguments == <<Str(""), HTTP_OK, <<>>>>

Init ==
  \E content \in Contents, status \in StatusCodes, headers \in HeaderMappings :
    /\ response = constructor(content, status, headers)
    /\ call = [op |-> "constructor", args |-> <<content, status, headers>>,
               result |-> undefined]
    /\ launcher = NodeHttpLauncher

SetStatus ==
  \E code \in StatusCodes, text \in Texts, o \in {Begin(response)} :
    /\ response' = setStatus(o, code, text)
    /\ Called("setStatus", <<code, text>>, undefined)

SetHeaders ==
  \E values \in HeaderMappings, o \in {Begin(response)} :
    /\ response' = setHeaders(o, values)
    /\ Called("setHeaders", <<values>>, undefined)

SetHeader ==
  \E kv \in HeaderCalls, o \in {Begin(response)} :
    /\ response' = setHeader(o, kv[1], kv[2])
    /\ Called("setHeader", kv, undefined)

AppendHeader ==
  \E kv \in {c \in HeaderCalls : c[1] = "X-Foo"}, o \in {Begin(response)} :
    /\ response' = appendHeader(o, kv[1], kv[2])
    /\ Called("appendHeader", kv, undefined)

GetHeader ==
  \E key \in HeaderKeys, o \in {Begin(response)} :
    IF hasStore(o)
    THEN /\ response' = o
         /\ Called("getHeader", <<key>>, getHeader(o, key, null))
    ELSE /\ response' = Throw(o, TypeError)
         /\ Called("getHeader", <<key>>, undefined)

RemoveHeader ==
  \E key \in {"x-foo", "Content-Type"}, o \in {Begin(response)} :
    /\ response' = removeHeader(o, <<key>>)
    /\ Called("removeHeader", <<key>>, undefined)

SetContent ==
  \E value \in Contents, o \in {Begin(response)} :
    /\ response' = setContent(o, value)
    /\ Called("setContent", <<value>>, undefined)

SetCookie ==
  \E name \in CookieNames, value \in {"1"}, o \in {Begin(response)} :
    /\ response' = setCookie(o, name, value)
    /\ Called("setCookie", <<name, value>>, undefined)

ClearCookie ==
  \E name \in {"sid"}, force \in BOOLEAN, o \in {Begin(response)} :
    /\ response' = clearCookie(o, name, force)
    /\ Called("clearCookie", <<name, force>>, undefined)

ClearCookies ==
  \E force \in BOOLEAN, o \in {Begin(response)} :
    /\ response' = clearCookies(o, force)
    /\ Called("clearCookies", <<force>>, undefined)

SecureCookies ==
  \E value \in BOOLEAN, o \in {Begin(response)} :
    /\ response' = secureCookies(o, value)
    /\ Called("secureCookies", <<value>>, undefined)

SetAppResolver ==
  \E app \in {Str("app")}, o \in {Begin(response)} :
    /\ response' = setAppResolver(o, app)
    /\ Called("setAppResolver", <<app>>, undefined)

SetRequestResolver ==
  \E request \in Requests, o \in {Begin(response)} :
    /\ response' = setRequestResolver(o, request)
    /\ Called("setRequestResolver", <<request>>, undefined)

Format ==
  \E formats \in Formats, o \in {Begin(response)} :
    /\ response' = format(o, formats)
    /\ Called("format", <<formats>>, undefined)

Prepare ==
  \E request \in Requests, o \in {Begin(response)} :
    /\ response' = prepare(o, request)
    /\ Called("prepare", <<request>>, undefined)

Next ==
  \/ SetStatus
  \/ SetHeaders
  \/ SetHeader
  \/ AppendHeader
  \/ GetHeader
  \/ RemoveHeader
  \/ SetContent
  \/ SetCookie
  \/ ClearCookie
  \/ ClearCookies
  \/ SecureCookies
  \/ SetAppResolver
  \/ SetRequestResolver
  \/ Format
  \/ Prepare

Spec == Init /\ [][Next]_vars

(***************************************************************************)
(* The cache methods, on the instance `new Response(...)` leaves.          *)
(***************************************************************************)
Directives == {<<"public", Bool("true")>>, <<"s-maxage", Num("30")>>}
DirectiveKeys == {"public", "max-age"}
Seconds == {Num("60")}

\* a method that returns a value
Returned(op, args, r, o) ==
  /\ response' = IF r.exc = "none" THEN o ELSE Throw(o, r.exc)
  /\ Called(op, args, r.v)

InitCache ==
  \E status \in {HTTP_OK, HTTP_NOT_MODIFIED},
     headers \in {<<>>, <<<<"X-Foo", Str("1")>>>>} :
    /\ response = constructor(Str(""), status, headers)
    /\ call = [op |-> "constructor", args |-> <<Str(""), status, headers>>,
               result |-> undefined]
    /\ launcher = NodeHttpLauncher

AddHeaderCacheControlDirective ==
  \E kv \in Directives, o \in {Begin(response)} :
    /\ response' = addHeaderCacheControlDirective(o, kv[1], kv[2])
    /\ Called("addHeaderCacheControlDirective", kv, undefined)

RemoveCacheControlDirective ==
  \E key \in DirectiveKeys, o \in {Begin(response)} :
    /\ response' = removeCacheControlDirective(o, key)
    /\ Called("removeCacheControlDirective", <<key>>, undefined)

SetPublic ==
  \E o \in {Begin(response)} :
    /\ response' = setPublic(o)
    /\ Called("setPublic", <<>>, undefined)

SetPrivate ==
  \E o \in {Begin(response)} :
    /\ response' = setPrivate(o)
    /\ Called("setPrivate", <<>>, undefined)

SetImmutable ==
  \E immutable \in BOOLEAN, o \in {Begin(response)} :
    /\ response' = setImmutable(o, immutable)
    /\ Called("setImmutable", <<immutable>>, undefined)

SetMaxAge ==
  \E value \in Seconds, o \in {Begin(response)} :
    /\ response' = setMaxAge(o, value)
    /\ Called("setMaxAge", <<value>>, undefined)

SetSharedMaxAge ==
  \E value \in Seconds, o \in {Begin(response)} :
    /\ response' = setSharedMaxAge(o, value)
    /\ Called("setSharedMaxAge", <<value>>, undefined)

SetStaleWhileRevalidate ==
  \E value \in Seconds, o \in {Begin(response)} :
    /\ response' = setStaleWhileRevalidate(o, value)
    /\ Called("setStaleWhileRevalidate", <<value>>, undefined)

SetStaleIfError ==
  \E value \in Seconds, o \in {Begin(response)} :
    /\ response' = setStaleIfError(o, value)
    /\ Called("setStaleIfError", <<value>>, undefined)

GetMaxAge ==
  \E o \in {Begin(response)} : Returned("getMaxAge", <<>>, getMaxAge(o), o)

GetAge ==
  \E o \in {Begin(response)} : Returned("getAge", <<>>, getAge(o), o)

GetTtl ==
  \E o \in {Begin(response)} : Returned("getTtl", <<>>, getTtl(o), o)

IsFresh ==
  \E o \in {Begin(response)} : Returned("isFresh", <<>>, isFresh(o), o)

\* option objects: none of the table's keys, some of them, all of them
\* (nothing asked, a max-age, a flag), and all of them with a foreign key
NoOptions == [k \in {} |-> undefined]
AllOptions == [k \in CacheOptionKeys |-> Bool("false")]
withOption(options, key, value) ==
  [k \in DOMAIN options \cup {key} |-> IF k = key THEN value ELSE options[k]]

CacheOptions ==
  {NoOptions,
   withOption(NoOptions, "max_age", Num("60")),
   withOption(NoOptions, "no_cache", Bool("true")),
   withOption(NoOptions, "foreign", Num("60")),
   AllOptions,
   withOption(AllOptions, "max_age", Num("60")),
   withOption(AllOptions, "no_cache", Bool("true")),
   withOption(AllOptions, "foreign", Num("60"))}

SetCache ==
  \E options \in CacheOptions, o \in {Begin(response)} :
    /\ response' = setCache(o, options)
    /\ Called("setCache", <<options>>, undefined)

NextCache ==
  \/ AddHeaderCacheControlDirective
  \/ RemoveCacheControlDirective
  \/ SetPublic
  \/ SetPrivate
  \/ SetImmutable
  \/ SetMaxAge
  \/ SetSharedMaxAge
  \/ SetStaleWhileRevalidate
  \/ SetStaleIfError
  \/ GetMaxAge
  \/ GetAge
  \/ GetTtl
  \/ IsFresh
  \/ SetCache

SpecCache == InitCache /\ [][NextCache]_vars

(***************************************************************************)
(* The launcher's steps.                                                   *)
(***************************************************************************)
Urls == {"http://localhost:8080", "not a url"}

InitLauncher ==
  /\ launcher = NodeHttpLauncher
  /\ response = undefined
  /\ call = [op |-> "none", args |-> <<>>, result |-> undefined]

\* launch() (lines 30-54): the #server getter is read for listen's arguments;
\* listen then succeeds or the server emits 'error'
Launch ==
  \E url \in Urls, portFree \in BOOLEAN :
    /\ launcher.server = "none"
    /\ launcher' =
         IF server_getter_throws(url)
         THEN [launcher EXCEPT !.server = "failed", !.exc = LogicException]
         ELSE IF portFree THEN [launcher EXCEPT !.server = "listening"]
         ELSE [launcher EXCEPT !.server = "failed", !.exc = "EADDRINUSE"]
    /\ UNCHANGED <<response, call>>

\* a connection's request arrives: the handler starts, calls
\* Request.createFromNodeRequest and waits for it (line 34)
Accept(c) ==
  /\ launcher.server = "listening"
  /\ launcher.conn[c].pc = "idle"
  /\ launcher' = [launcher EXCEPT !.conn[c].pc = "awaitRequest"]
  /\ UNCHANGED <<response, call>>

\* the await of line 34 ends: with the Request, and lines 35-37 run; or with
\* the exception building it threw
ResumeRequest(c) ==
  \E built \in BOOLEAN :
    /\ launcher.server = "listening"
    /\ launcher.conn[c].pc = "awaitRequest"
    /\ launcher' = IF built THEN handleRequest(launcher, c, c)
                   ELSE rejectHandler(launcher, c, "RequestException")
    /\ UNCHANGED <<response, call>>

\* The rejected promise of a handler has no handler of its own.  The runtime
\* either ends the process on an unhandled rejection or only warns.
CrashOnRejection(c) ==
  /\ launcher.server = "listening"
  /\ launcher.conn[c].pc = "rejected"
  /\ launcher' = [launcher EXCEPT !.server = "crashed",
                                  !.conn[c].pc = "abandoned"]
  /\ UNCHANGED <<response, call>>

IgnoreRejection(c) ==
  /\ launcher.server = "listening"
  /\ launcher.conn[c].pc = "rejected"
  /\ launcher' = [launcher EXCEPT !.conn[c].pc = "abandoned"]
  /\ UNCHANGED <<response, call>>

NextLauncher ==
  \/ Launch
  \/ \E c \in Connections : Accept(c)
  \/ \E c \in Connections : ResumeRequest(c)
  \/ \E c \in Connections : CrashOnRejection(c)
  \/ \E c \in Connections : IgnoreRejection(c)

\* The event loop runs every settled await and reports every rejection.
FairLauncher ==
  \A c \in Connections :
    /\ WF_vars(ResumeRequest(c))
    /\ WF_vars(CrashOnRejection(c) \/ IgnoreRejection(c))

SpecLauncher == InitLauncher /\ [][NextLauncher]_vars /\ FairLauncher

(***************************************************************************)
(* isRedirect (line 416).  The conditional operator binds weaker than &&:  *)
(* the test is `includes(code) && location === null`, its true branch is   *)
(* `true` and its false branch is `!!this.getHeader('Location')`, which    *)
(* reads the header store.                                                 *)
(***************************************************************************)
REDIRECT_CODES == {201, 301, 302, 303, 307, 308}

\* an argument left out (undefined) takes the default, null
isRedirect(o, location) ==
  IF /\ o._statusCode \in REDIRECT_CODES
     /\ (IF location = undefined THEN null ELSE location) = null
  THEN Return(Bool("true"))
  ELSE IF ~hasStore(o) THEN Raise(TypeError)
  ELSE Return(Bool(IF truthy(getHeader(o, "Location", null))
                   THEN "true" ELSE "false"))

\* the status codes and location arguments of the redirect steps
RedirectStatuses ==
  REDIRECT_CODES
    \cup {HTTP_OK, HTTP_NO_CONTENT, HTTP_NOT_MODIFIED, HTTP_NOT_ACCEPTABLE}
Locations == {undefined, null, Str("/next")}

InitRedirect ==
  \E status \in RedirectStatuses,
     headers \in {<<>>, <<<<"Location", Str("/next")>>>>} :
    /\ response = constructor(Str(""), status, headers)
    /\ call = [op |-> "constructor", args |-> <<Str(""), status, headers>>,
               result |-> undefined]
    /\ launcher = NodeHttpLauncher

SetRedirectStatus ==
  \E code \in RedirectStatuses, text \in Texts, o \in {Begin(response)} :
    /\ response' = setStatus(o, code, text)
    /\ Called("setStatus", <<code, text>>, undefined)

SetLocation ==
  \E o \in {Begin(response)} :
    /\ response' = setHeader(o, "Location", Str("/next"))
    /\ Called("setHeader", <<"Location", Str("/next")>>, undefined)

IsRedirect ==
  \E location \in Locations, o \in {Begin(response)} :
    Returned("isRedirect", <<location>>, isRedirect(o, location), o)

NextRedirect ==
  \/ SetRedirectStatus
  \/ SetLocation
  \/ IsRedirect

SpecRedirect == InitRedirect /\ [][NextRedirect]_vars

(***************************************************************************)
(* Properties.                                                             *)
(***************************************************************************)
ValidCodes == 100..599

registeredText(code) ==
  IF code \in DOMAIN STATUS_TEXTS THEN Str(STATUS_TEXTS[code])
  ELSE Str("unknown status")

headerIs(o, key, text) ==
  hasStore(o) /\ Headers_has(o, key) /\ Headers_get(o, key) = Str(text)

headerAbsent(o, key) == hasStore(o) /\ ~Headers_has(o, key)

\* C1: new Response() with the default arguments succeeds and gives status
\* 200 with its registered message, empty content, no headers and an empty
\* cookie jar; and whatever header mapping the constructor is given (with a
\* valid status and textual content), every entry of it is installed.
C1_Construction ==
  /\ (call.op = "constructor" /\ call.args = DefaultArguments) =>
       /\ response.constructed
       /\ Ok(response)
       /\ response._statusCode = HTTP_OK
       /\ response._statusMessage = registeredText(HTTP_OK)
       /\ response._content = Str("")
       /\ hasStore(response) /\ response._headers.v = <<>>
       /\ hasJar(response) /\ response.cookieCollection.v = <<>>
  /\ (/\ call.op = "constructor"
      /\ call.args[2] \in ValidCodes
      /\ call.args[1].t = "string") =>
       /\ response.constructed
       /\ \A i \in 1..Len(call.args[3]) :
            hasStore(response) /\ Headers_has(response, call.args[3][i][1])

\* C2: setStatus(c) with 100 <= c <= 599 succeeds, stores c and makes the
\* message the registered text of c, 'unknown status' when c has none, or the
\* explicit text when one is given; with c outside the range setStatus(c), and
\* construction with status c, throw InvalidArgumentException.
C2_SetStatus ==
  /\ call.op = "setStatus" =>
       IF call.args[1] \in ValidCodes
       THEN /\ Ok(response)
            /\ response._statusCode = call.args[1]
            /\ response._statusMessage =
                 IF call.args[2].t = "null" THEN registeredText(call.args[1])
                 ELSE call.args[2]
       ELSE response.exc = InvalidArgumentException
  /\ (call.op = "constructor" /\ call.args[2] \notin ValidCodes) =>
       response.exc = InvalidArgumentException /\ ~response.constructed

\* C2 witness: setStatus(599) without a text succeeded with 'unknown status'.
C2_Witness ==
  /\ call.op = "setStatus" /\ call.args[1] = 599 /\ call.args[2].t = "null"
  /\ Ok(response)
  /\ response._statusMessage = Str("unknown status")

\* C3: once the stored status code of an instance lies in [100,599], no call
\* (setStatus, rejected or not, format, prepare or any other) takes it out of
\* that range: a rejected code never becomes the Response's status.
C3_StatusStaysValid ==
  [][response._statusCode \in ValidCodes =>
       response'._statusCode \in ValidCodes]_vars

\* C4: after setHeader(n, v) with n other than Content-Type and v a string,
\* getHeader(n') gives exactly v for every n' equal to n up to letter case
\* (so a later setHeader of such an n' has replaced the earlier value); a
\* getHeader call completes and gives the stored value or the fallback.
C4_HeaderRoundTrip ==
  /\ (/\ call.op = "setHeader"
      /\ toLowerCase(call.args[1]) # "content-type"
      /\ call.args[2].t = "string") =>
       /\ Ok(response)
       /\ \A k \in HeaderKeys :
            toLowerCase(k) = toLowerCase(call.args[1]) =>
              /\ hasStore(response)
              /\ getHeader(response, k, null) = call.args[2]
  /\ call.op = "getHeader" =>
       /\ Ok(response)
       /\ call.result = getHeader(response, call.args[1], null)

\* C5: setHeader('Content-Type', v) stores v followed by '; charset=' and the
\* lower-cased charset of the media type when v has no charset fragment
\* ('text/plain' is stored as 'text/plain; charset=utf-8'), stores v as it is
\* when v has one, and throws InvalidArgumentException for an array.
C5_ContentTypeCharset ==
  (call.op = "setHeader" /\ toLowerCase(call.args[1]) = "content-type") =>
    IF isArray(call.args[2])
    THEN response.exc = InvalidArgumentException
    ELSE /\ Ok(response)
         /\ call.args[2] = Str("text/plain") =>
              headerIs(response, "Content-Type", "text/plain; charset=utf-8")
         /\ charsetRegExp(call.args[2].v) =>
              headerIs(response, "Content-Type", call.args[2].v)

\* C6: after every setCookie, clearCookie(name, force), clearCookies(force)
\* and secureCookies call, the Set-Cookie header is the serialization of the
\* cookie jar as the call left it.
C6_SetCookieReflectsJar ==
  call.op \in {"setCookie", "clearCookie", "clearCookies", "secureCookies"} =>
    /\ Ok(response)
    /\ hasJar(response)
    /\ headerIs(response, "Set-Cookie",
                headerText(Cookies_all(response.cookieCollection.v)))

\* C7: format(formats) on a Response that has its Request ends in one of three
\* ways: the Request accepts an offered key, and Content-Type is that key, the
\* content that producer's result and the status unchanged; no key is accepted
\* and there is a default producer, and the content is its result while status
\* and Content-Type are unchanged; no key is accepted and there is no default,
\* and the status is 406 and the content the diagnostic listing the keys.
C7_FormatOutcomes ==
  [][(call'.op = "format" /\ response.requestResolver.t = "Request") =>
       LET formats == call'.args[1]
           key == Request_accepts(response.requestResolver, formats.keys, 1)
       IN /\ Ok(response')
          /\ IF truthy(key)
             THEN /\ hasStore(response')
                  /\ Headers_has(response', "Content-Type")
                  /\ mediaTypeOf(Headers_get(response', "Content-Type").v)
                       \in {key.v, key.v \o "; charset=utf-8"}
                  /\ response'.originalContent = formats.produce[key.v]
                  /\ response'._statusCode = response._statusCode
             ELSE IF formats.default.t # "undefined"
             THEN /\ response'._content = formats.default
                  /\ response'._statusCode = response._statusCode
                  /\ response'._headers = response._headers
             ELSE /\ response'._statusCode = HTTP_NOT_ACCEPTABLE
                  /\ response'._content =
                       Str("Invalid types (" \o join(formats.keys, ",") \o ")")]_vars

\* C8: after every format call on a Response that has its Request, the Vary
\* header contains 'Accept' and still contains every field it held before.
C8_FormatVaryAccept ==
  [][(call'.op = "format" /\ response.requestResolver.t = "Request") =>
       /\ Ok(response')
       /\ hasStore(response')
       /\ inVary(parseVary(getHeader(response', "Vary", Str("")).v), "Accept")
       /\ hasStore(response) =>
            \A f \in {"X-Foo", "Accept"} :
              inVary(parseVary(getHeader(response, "Vary", Str("")).v), f) =>
                inVary(parseVary(getHeader(response', "Vary", Str("")).v), f)]_vars

\* C9: new Response({a:1}) with status 200 and the default headers, then
\* prepare(request) with a request that is neither fresh nor HEAD, gives
\* Content-Type 'application/json; charset=utf-8', a Content-Length equal to
\* the byte length of the JSON text, and status 200.
C9_PrepareJson ==
  [][(/\ call.op = "constructor"
      /\ call.args = <<Obj("{\"a\":1}"), HTTP_OK, <<>>>>
      /\ call'.op = "prepare"
      /\ ~call'.args[1].fresh /\ call'.args[1].method # "HEAD") =>
       /\ Ok(response')
       /\ headerIs(response', "Content-Type", "application/json; charset=utf-8")
       /\ headerIs(response', "Content-Length", ToString(Len("{\"a\":1}")))
       /\ response'._statusCode = HTTP_OK]_vars

\* C10: when the status after the freshness step of prepare is 1xx, 204 or
\* 304, prepare completes and leaves empty content and none of Content-Type,
\* Content-Length, Transfer-Encoding.
C10_PrepareEmptyStatuses ==
  (call.op = "prepare" /\ (isInformational(response) \/ isEmpty(response))) =>
    /\ Ok(response)
    /\ response._content = Str("")
    /\ headerAbsent(response, "Content-Type")
    /\ headerAbsent(response, "Content-Length")
    /\ headerAbsent(response, "Transfer-Encoding")

bodyCarrying(o) ==
  /\ o._statusCode \in ValidCodes
  /\ ~(isInformational(o) \/ isEmpty(o) \/ isResetContent(o))

\* C11: prepare against a HEAD request (not fresh) of a Response whose status
\* carries a body completes with empty content, while Content-Type is present
\* and Content-Length is the byte length of the content it had (the would-be
\* body).
C11_PrepareHead ==
  [][(/\ call'.op = "prepare"
      /\ call'.args[1].method = "HEAD" /\ ~call'.args[1].fresh
      /\ bodyCarrying(response)
      /\ response._content.t = "string") =>
       /\ Ok(response')
       /\ response'._content = Str("")
       /\ hasStore(response') /\ Headers_has(response', "Content-Type")
       /\ headerIs(response', "Content-Length",
                   ToString(Len(response._content.v)))]_vars

\* C18: whenever prepare has completed, Transfer-Encoding and Content-Length
\* are not both present.
C18_ExclusiveFraming ==
  (call.op = "prepare" /\ Ok(response)) =>
    /\ hasStore(response)
    /\ ~(/\ Headers_has(response, "Transfer-Encoding")
         /\ Headers_has(response, "Content-Length"))

\* C19: when the request's freshness check succeeds, prepare completes with
\* status 304, empty content and none of Content-Type, Content-Length,
\* Transfer-Encoding, whatever the status was; when the check fails, prepare
\* leaves the status code as it was.
C19_PrepareFreshness ==
  [][call'.op = "prepare" =>
       IF call'.args[1].fresh
       THEN /\ response'._statusCode = HTTP_NOT_MODIFIED
            /\ Ok(response')
            /\ response'._content = Str("")
            /\ headerAbsent(response', "Content-Type")
            /\ headerAbsent(response', "Content-Length")
            /\ headerAbsent(response', "Transfer-Encoding")
       ELSE response'._statusCode = response._statusCode]_vars

\* C20: prepare (request neither fresh nor HEAD) of a Response with textual
\* content and a body-carrying status turns the content into its bytes and
\* clears the charset exactly when an ETag is to be generated and the content
\* is longer than 1000; otherwise content stays textual and the charset is
\* kept; either way Content-Length is the byte length of the content.
C20_BinaryConversion ==
  [][(/\ call'.op = "prepare"
      /\ ~call'.args[1].fresh /\ call'.args[1].method # "HEAD"
      /\ bodyCarrying(response)
      /\ response._content.t = "string") =>
       LET generateETag == ~(hasStore(response) /\ Headers_has(response, "ETag"))
           converts == generateETag
                         /\ Len(response._content.v) > ETAG_BUFFER_THRESHOLD
       IN /\ Ok(response')
          /\ IF converts
             THEN /\ response'._content = Buf(response._content.v)
                  /\ response'._charset = undefined
             ELSE /\ response'._content = response._content
                  /\ ~isNullish(response'._charset)
          /\ headerIs(response', "Content-Length",
                      ToString(Len(response._content.v)))]_vars

\* the directives of an instance (none before the Map exists)
directivesOf(o) == IF hasDirectives(o) THEN o.headerCacheControl.v ELSE <<>>

\* a directive as the Cache-Control grammar writes it
directiveText(e) ==
  IF e.value = Bool("true") THEN e.key ELSE e.key \o "=" \o String(e.value).v

directiveList(entries, sep) ==
  join([i \in 1..Len(entries) |-> directiveText(entries[i])], sep)

\* the max-age the directives state: s-maxage, else max-age, else none
statedMaxAge(o) ==
  IF Map_has(directivesOf(o), "s-maxage")
  THEN parseInt(Map_get(directivesOf(o), "s-maxage"))
  ELSE IF Map_has(directivesOf(o), "max-age")
  THEN parseInt(Map_get(directivesOf(o), "max-age"))
  ELSE null

hasExpires(o) == hasStore(o) /\ Headers_has(o, "Expires")
hasAge(o) == hasStore(o) /\ Headers_has(o, "Age")

\* C12: getTtl() completes and gives max(getMaxAge() - Age, 0) when a max-age
\* is stated (checked where the Age header is explicit) and nothing when none
\* is; isFresh() completes and is true exactly when that ttl is above 0.
C12_TtlAndFreshness ==
  /\ (call.op = "getTtl" /\ ~hasExpires(response)) =>
       /\ Ok(response)
       /\ IF statedMaxAge(response) = null THEN isNullish(call.result)
          ELSE hasAge(response) =>
                 call.result =
                   Math_max_minus(statedMaxAge(response),
                                  parseInt(Headers_get(response, "Age")))
  /\ (call.op = "isFresh" /\ ~hasExpires(response)) =>
       /\ Ok(response)
       /\ IF statedMaxAge(response) = null THEN call.result = Bool("false")
          ELSE hasAge(response) =>
                 (call.result = Bool("true")) <=>
                   greaterThanZero(
                     Math_max_minus(statedMaxAge(response),
                                    parseInt(Headers_get(response, "Age"))))

CacheMutators ==
  {"addHeaderCacheControlDirective", "removeCacheControlDirective",
   "setPublic", "setPrivate", "setImmutable", "setMaxAge", "setSharedMaxAge",
   "setStaleWhileRevalidate", "setStaleIfError"}

\* C16: after each of the Cache-Control mutators the call has completed and
\* the Cache-Control header is the comma-joined list of the current
\* directives in insertion order, a boolean directive as its bare name and a
\* valued one as name=value.
C16_CacheControlHeader ==
  call.op \in CacheMutators =>
    /\ Ok(response)
    /\ hasStore(response) /\ Headers_has(response, "Cache-Control")
    /\ Headers_get(response, "Cache-Control").v
         \in {directiveList(directivesOf(response), ","),
              directiveList(directivesOf(response), ", ")}

\* C17: getMaxAge() completes and gives the s-maxage value when present, else
\* the max-age value when present, else a number derived from Expires when
\* that header is present, else nothing (no number and no exception), also on
\* an instance no directive was ever added to.
C17_GetMaxAge ==
  call.op = "getMaxAge" =>
    /\ Ok(response)
    /\ IF statedMaxAge(response) # null
       THEN call.result = statedMaxAge(response)
       ELSE IF hasExpires(response) THEN call.result.t = "number"
       ELSE isNullish(call.result)

accepted(c) == launcher.conn[c].pc # "idle"
replied(c) == launcher.conn[c].reply.written
\* the handler's promise has settled: the handler will run no more
settled(c) == launcher.conn[c].pc \in {"rejected", "abandoned"}

\* C13: every connection the launcher accepted, the first and every later
\* one, is eventually written a reply, also when building the Request or
\* running the pipeline throws.
C13_EveryConnectionReplied ==
  \A c \in Connections : accepted(c) ~> replied(c)

\* C14: a connection whose Request was built and whose handler has finished
\* has been written the reply computed from its own Request, whatever other
\* connections were registered meanwhile.
C14_OwnRequest ==
  \A c \in Connections :
    (settled(c) /\ launcher.conn[c].request # 0) =>
      /\ replied(c)
      /\ launcher.conn[c].reply.from = launcher.conn[c].request

\* C15: nothing is written to a connection's native response before prepare
\* has completed on the Response written.
C15_NoWriteBeforePrepare ==
  \A c \in Connections : replied(c) => launcher.conn[c].reply.prepared

\* C21: setContent(v) completes; the content is v itself when v is a string
\* or a buffer, the empty string when v is null or undefined, and the JSON
\* text of v when v is an object, a number or a boolean; originalContent is v.
C21_SetContent ==
  call.op = "setContent" =>
    LET v == call.args[1]
    IN /\ Ok(response)
       /\ response.originalContent = v
       /\ response._content =
            IF v.t \in {"string", "buffer"} THEN v
            ELSE IF isNullish(v) THEN Str("")
            ELSE Str(v.v)

\* the directive name of a boolean cache option
hyphenated(key) ==
  CASE key = "must_revalidate" -> "must-revalidate"
    [] key = "no_cache" -> "no-cache"
    [] key = "no_store" -> "no-store"
    [] key = "no_transform" -> "no-transform"
    [] key = "proxy_revalidate" -> "proxy-revalidate"
    [] OTHER -> key

\* C22: setCache(options) throws InvalidArgumentException exactly when
\* options has a key outside the recognised set, and then leaves headers and
\* directives as they were; otherwise it completes, whichever recognised keys
\* are missing, with a supplied max_age as the max-age directive and a
\* supplied boolean flag as its hyphenated directive.
C22_SetCache ==
  [][call'.op = "setCache" =>
       LET options == call'.args[1]
       IN IF DOMAIN options \subseteq CacheOptionKeys
          THEN /\ Ok(response')
               /\ truthy(optionOf(options, "max_age")) =>
                    Map_get(directivesOf(response'), "max-age")
                      = options["max_age"]
               /\ \A k \in DOMAIN options :
                    (hyphenated(k) # k /\ truthy(options[k])) =>
                      Map_has(directivesOf(response'), hyphenated(k))
          ELSE /\ response'.exc = InvalidArgumentException
               /\ response'._headers = response._headers
               /\ response'.headerCacheControl = response.headerCacheControl]_vars

hasDirective(o, key) == Map_has(directivesOf(o), key)

\* C23: the directives never hold both public and private; setPublic
\* completes with public present and private absent, setPrivate with private
\* present and public absent, setSharedMaxAge with public and s-maxage
\* present and private absent.
C23_PublicPrivateExclusive ==
  /\ ~(hasDirective(response, "public") /\ hasDirective(response, "private"))
  /\ call.op = "setPublic" =>
       /\ Ok(response)
       /\ hasDirective(response, "public")
       /\ ~hasDirective(response, "private")
  /\ call.op = "setPrivate" =>
       /\ Ok(response)
       /\ hasDirective(response, "private")
       /\ ~hasDirective(response, "public")
  /\ call.op = "setSharedMaxAge" =>
       /\ Ok(response)
       /\ hasDirective(response, "public")
       /\ hasDirective(response, "s-maxage")
       /\ ~hasDirective(response, "private")

\* a setStatus call whose text argument is given
explicitText(c) == c.op = "setStatus" /\ c.args[2] # null

\* C24: statusMessage follows statusCode: a step that assigns the status code
\* or the status message, other than a setStatus call given an explicit
\* text, leaves statusMessage equal to the registered text of the status code
\* it leaves ('unknown status' for an unregistered code); this includes
\* prepare's 304 and format's 406.
C24_MessageFollowsCode ==
  [][(/\ ~explicitText(call')
      /\ \/ response'._statusCode # response._statusCode
         \/ response'._statusMessage # response._statusMessage)
       => response'._statusMessage = registeredText(response'._statusCode)]_vars

\* C25: isRedirect(location) completes with false whenever the status code
\* is none of 201, 301, 302, 303, 307, 308, whatever the location argument;
\* for a status among them, isRedirect() without argument completes with
\* true.
C25_IsRedirect ==
  call.op = "isRedirect" =>
    IF response._statusCode \notin REDIRECT_CODES
    THEN Ok(response) /\ call.result = Bool("false")
    ELSE call.args[1] = undefined =>
           (Ok(response) /\ call.result = Bool("true"))
====
